---- MODULE Spec2Model ----
(***************************************************************************)
(* A model of the workout planner's request handlers (src/app.py): the     *)
(* three tables User, Workout and Exercise, the login session of one       *)
(* browser, and one action per route.  Text values are sequences of        *)
(* one-character strings, so that strip() and int() are computed.          *)
(***************************************************************************)
EXTENDS Integers, Sequences, FiniteSets, TLC

VARIABLES users, workouts, exercises, session, request, response, inflight, plaintext

vars == <<users, workouts, exercises, session, request, response, inflight, plaintext>>

(* ------------------------------ bounds -------------------------------- *)
MaxUsers == 2
MaxWorkouts == 2
MaxRows == 2
NumWorkers == 2
NumSalts == 2

(* ------------------------------ text ---------------------------------- *)
Whitespace == {" ", "\t", "\n"}

Digits == <<"0", "1", "2", "3", "4", "5", "6", "7", "8", "9">>

IsDigit(c) == \E i \in 1..Len(Digits) : Digits[i] = c

DigitVal(c) == (CHOOSE i \in 1..Len(Digits) : Digits[i] = c) - 1

RECURSIVE LStrip(_)
LStrip(s) == IF s # <<>> /\ Head(s) \in Whitespace THEN LStrip(Tail(s)) ELSE s

RECURSIVE RStrip(_)
RStrip(s) ==
    IF s # <<>> /\ s[Len(s)] \in Whitespace THEN RStrip(SubSeq(s, 1, Len(s) - 1)) ELSE s

\* str.strip()
Strip(s) == RStrip(LStrip(s))

RECURSIVE DigitsValue(_, _)
DigitsValue(s, acc) ==
    IF s = <<>> THEN acc ELSE DigitsValue(Tail(s), acc * 10 + DigitVal(Head(s)))

\* int(text): surrounding whitespace and one sign are accepted, then at least
\* one decimal digit and nothing else; anything else raises ValueError.  (The
\* texts submitted here hold no "_" digit separators.)
ParseInt(s) ==
    LET t == Strip(s)
        signed == t # <<>> /\ Head(t) \in {"+", "-"}
        body == IF signed THEN Tail(t) ELSE t
        ok == body # <<>> /\ \A i \in 1..Len(body) : IsDigit(body[i])
        magnitude == IF ok THEN DigitsValue(body, 0) ELSE 0
    IN  [ok |-> ok,
         value |-> IF signed /\ Head(t) = "-" THEN 0 - magnitude ELSE magnitude]

(* --------------------------- submitted forms -------------------------- *)
FieldNames ==
    {"username", "email", "password", "password2",
     "date", "start_time", "duration", "notes",
     "exercise_name", "exercise_body_part", "exercise_sets", "exercise_reps"}

\* request.form: every field name maps to the list of values submitted for it.
EmptyForm == [f \in FieldNames |-> <<>>]

\* request.form.getlist(name)
GetList(form, name) == form[name]

\* field.data of a single-valued form field: the first submitted value.
FieldData(form, name) == IF form[name] = <<>> THEN <<>> ELSE form[name][1]

\* wtforms DataRequired: the value is truthy and not whitespace only.
DataRequired(s) == s # <<>> /\ Strip(s) # <<>>

\* wtforms Email: one "@", a non-empty local part and a dotted domain, no
\* whitespace.
EmailValid(s) ==
    LET ats == {i \in 1..Len(s) : s[i] = "@"}
    IN  /\ Cardinality(ats) = 1
        /\ \A i \in 1..Len(s) : s[i] \notin Whitespace
        /\ LET a == CHOOSE i \in ats : TRUE
           IN  /\ a > 1
               /\ \E d \in (a + 2)..(Len(s) - 1) : s[d] = "."
               /\ s[a + 1] # "."
               /\ s[Len(s)] # "."

\* form.validate_on_submit(): a POST whose fields all pass their validators.
RegisterFormValid(method, form) ==
    /\ method = "POST"
    /\ DataRequired(FieldData(form, "username"))
    /\ DataRequired(FieldData(form, "email"))
    /\ EmailValid(FieldData(form, "email"))
    /\ DataRequired(FieldData(form, "password"))
    /\ FieldData(form, "password") = FieldData(form, "password2")
    /\ DataRequired(FieldData(form, "password2"))

LoginFormValid(method, form) ==
    /\ method = "POST"
    /\ DataRequired(FieldData(form, "email"))
    /\ EmailValid(FieldData(form, "email"))
    /\ DataRequired(FieldData(form, "password"))

WorkoutFormValid(method, form) ==
    /\ method = "POST"
    /\ DataRequired(FieldData(form, "date"))
    /\ DataRequired(FieldData(form, "start_time"))
    /\ DataRequired(FieldData(form, "duration"))

(* --------------------------- password hashes -------------------------- *)
CharCodes == <<" ", "p", "q", "r">>

CharCode(c) == CHOOSE i \in 1..Len(CharCodes) : CharCodes[i] = c

\* The salted one-way digest of werkzeug's password hashes, as a polynomial
\* fold of the characters seeded by the salt (16 bits wide).
RECURSIVE Digest(_, _)
Digest(acc, s) ==
    IF s = <<>> THEN acc ELSE Digest((acc * 31 + CharCode(Head(s))) % 65536, Tail(s))

\* generate_password_hash(password), with the salt it draws
GeneratePasswordHash(password, salt) ==
    [salt |-> salt, digest |-> Digest(salt, password)]

\* mutant: the submitted password is stripped before it is verified
CheckPasswordHashStripped(pwhash, password) ==
    Digest(pwhash.salt, Strip(password)) = pwhash.digest

\* check_password_hash(pwhash, password)
CheckPasswordHash(pwhash, password) == Digest(pwhash.salt, password) = pwhash.digest

\* User.check_password
CheckPassword(user, password) == CheckPasswordHash(user.password_hash, password)

(* ------------------------------ database ------------------------------ *)
Anonymous == 0

MaxOf(S) == IF S = {} THEN 0 ELSE CHOOSE m \in S : \A x \in S : x <= m

\* the auto-increment primary key of the next row of a table
NextId(table) == MaxOf({r.id : r \in table}) + 1

\* User.query.filter_by(email=...).first() is not None
EmailTaken(email) == \E u \in users : u.email = email

\* User.query.filter_by(username=...).first() is not None
UsernameTaken(username) == \E u \in users : u.username = username

\* mutant: the tables carry no unique constraint
UniqueOkOff(table, row) == TRUE

\* the unique=True constraints of User.username and User.email, as the
\* database checks them when the INSERT is committed
UniqueOk(table, row) ==
    \A u \in table : u.username # row.username /\ u.email # row.email

\* load_user: the User of the session identity, if any
CurrentUser == {u \in users : u.id = session}

IsAuthenticated == CurrentUser # {}

(* ------------------------------ responses ----------------------------- *)
Respond(status, target, flash) ==
    [status |-> status, target |-> target, flash |-> flash,
     workouts |-> {}, exercises |-> {}]

RespondData(target, ws, es) ==
    [status |-> "render", target |-> target, flash |-> "",
     workouts |-> ws, exercises |-> es]

\* login_manager.unauthorized(): flash the login message, redirect to login_view
Unauthorized == Respond("redirect", "login", "Please log in to access this page.")

Req(route, method, form, arg) ==
    [route |-> route, method |-> method, form |-> form, arg |-> arg]

(* ------------------------------ register ------------------------------ *)
\* mutant: the username is not looked up before the INSERT
RegisterOutcomeNoUsernameCheck(method, form) ==
    IF ~RegisterFormValid(method, form) THEN "render"
    ELSE IF EmailTaken(FieldData(form, "email")) THEN "email_taken"
    ELSE "create"

\* register, lines 96-106: validation, then the two existence checks
RegisterOutcome(method, form) ==
    IF ~RegisterFormValid(method, form) THEN "render"
    ELSE IF EmailTaken(FieldData(form, "email")) THEN "email_taken"
    ELSE IF UsernameTaken(FieldData(form, "username")) THEN "username_taken"
    ELSE "create"

\* the response of a register request that creates nothing
RegisterRejection(outcome) ==
    CASE outcome = "email_taken" ->
            Respond("redirect", "register", "Ten adres e-mail jest juz zajety. Wybierz inny.")
      [] outcome = "username_taken" ->
            Respond("redirect", "register", "Ta nazwa uzytkownika jest juz zajeta. Wybierz inna.")
      [] OTHER -> Respond("render", "register.html", "")

\* lines 107-108: the User row built from the form
NewUser(form, salt) ==
    [id |-> NextId(users),
     username |-> FieldData(form, "username"),
     email |-> FieldData(form, "email"),
     password_hash |-> GeneratePasswordHash(FieldData(form, "password"), salt)]

\* lines 109-112: INSERT and commit; a row the unique constraints refuse
\* raises IntegrityError and nothing is stored.
CommitUser(form, salt) ==
    LET row == NewUser(form, salt)
    IN  IF UniqueOk(users, row)
        THEN /\ users' = users \cup {row}
             /\ plaintext' = [i \in DOMAIN plaintext \cup {row.id} |->
                                 IF i = row.id THEN FieldData(form, "password")
                                 ELSE plaintext[i]]
             /\ response' = Respond("redirect", "login", "Konto utworzone! Mozesz sie zalogowac.")
        ELSE /\ UNCHANGED <<users, plaintext>>
             /\ response' = Respond("server_error", "IntegrityError", "")

\* One register request, run start to end with no other request in between.
Register(method, form, salt) ==
    LET outcome == RegisterOutcome(method, form)
    IN  /\ outcome = "create" => Cardinality(users) < MaxUsers
        /\ request' = Req("register", method, form, 0)
        /\ IF outcome = "create"
           THEN CommitUser(form, salt)
           ELSE /\ response' = RegisterRejection(outcome)
                /\ UNCHANGED <<users, plaintext>>
        /\ UNCHANGED <<workouts, exercises, session, inflight>>

\* The same handler on worker w, up to the end of the existence checks: other
\* workers' requests may run before it commits.
RegisterBegin(w, method, form) ==
    LET outcome == RegisterOutcome(method, form)
    IN  /\ inflight[w] = <<>>
        /\ request' = Req("register", method, form, 0)
        /\ IF outcome = "create"
           THEN /\ inflight' = [inflight EXCEPT ![w] = <<form>>]
                /\ UNCHANGED response
           ELSE /\ response' = RegisterRejection(outcome)
                /\ UNCHANGED inflight
        /\ UNCHANGED <<users, plaintext, workouts, exercises, session>>

\* ... and its commit.
RegisterCommit(w, salt) ==
    /\ inflight[w] # <<>>
    /\ Cardinality(users) < MaxUsers
    /\ request' = Req("register", "POST", inflight[w][1], 0)
    /\ CommitUser(inflight[w][1], salt)
    /\ inflight' = [inflight EXCEPT ![w] = <<>>]
    /\ UNCHANGED <<workouts, exercises, session>>

(* --------------------------- login and logout -------------------------- *)
\* User.query.filter_by(email=...).first(): the matching rows, lowest id first
FirstByEmail(email) ==
    LET found == {u \in users : u.email = email}
    IN  {u \in found : \A v \in found : u.id <= v.id}

\* mutant: an unknown email gets a message of its own
LoginResultTellsUnknown(method, form) ==
    IF ~LoginFormValid(method, form)
    THEN [user |-> Anonymous, response |-> Respond("render", "login.html", "")]
    ELSE LET ok == {u \in FirstByEmail(FieldData(form, "email")) :
                        CheckPassword(u, FieldData(form, "password"))}
         IN  IF ok # {}
             THEN [user |-> (CHOOSE u \in ok : TRUE).id,
                   response |-> Respond("redirect", "dashboard", "")]
             ELSE IF FirstByEmail(FieldData(form, "email")) = {}
             THEN [user |-> Anonymous,
                   response |-> Respond("render", "login.html", "Nie ma takiego konta")]
             ELSE [user |-> Anonymous,
                   response |-> Respond("render", "login.html", "Bledny email lub haslo")]

\* login, lines 119-125: what a login request answers and whom it logs in
LoginResult(method, form) ==
    IF ~LoginFormValid(method, form)
    THEN [user |-> Anonymous, response |-> Respond("render", "login.html", "")]
    ELSE LET ok == {u \in FirstByEmail(FieldData(form, "email")) :
                        CheckPassword(u, FieldData(form, "password"))}
         IN  IF ok # {}
             THEN [user |-> (CHOOSE u \in ok : TRUE).id,
                   response |-> Respond("redirect", "dashboard", "")]
             ELSE [user |-> Anonymous,
                   response |-> Respond("render", "login.html", "Bledny email lub haslo")]

\* mutant: a failed login ends the session
LoginDropsSession(method, form) ==
    LET r == LoginResult(method, form)
    IN  /\ request' = Req("login", method, form, 0)
        /\ response' = r.response
        /\ session' = r.user
        /\ UNCHANGED <<users, plaintext, workouts, exercises, inflight>>

Login(method, form) ==
    LET r == LoginResult(method, form)
    IN  /\ request' = Req("login", method, form, 0)
        /\ response' = r.response
        /\ session' = IF r.user # Anonymous THEN r.user ELSE session
        /\ UNCHANGED <<users, plaintext, workouts, exercises, inflight>>

\* mutant: the route is not decorated
LoginRequiredOff(Handler) == Handler

\* @login_required: an anonymous request is answered by the login manager and
\* the handler does not run.
LoginRequired(Handler) ==
    IF IsAuthenticated
    THEN Handler
    ELSE /\ response' = Unauthorized
         /\ UNCHANGED <<users, plaintext, workouts, exercises, session>>

LogoutBody ==
    /\ session' = Anonymous
    /\ response' = Respond("redirect", "index", "")
    /\ UNCHANGED <<users, plaintext, workouts, exercises>>

Logout ==
    /\ request' = Req("logout", "GET", EmptyForm, 0)
    /\ LoginRequired(LogoutBody)
    /\ UNCHANGED inflight

Index ==
    /\ request' = Req("index", "GET", EmptyForm, 0)
    /\ response' = Respond("render", "index.html", "")
    /\ UNCHANGED <<users, plaintext, workouts, exercises, session, inflight>>

(* ------------------------------ workouts ------------------------------ *)
\* current_user.id (the anonymous user has no id: AttributeError)
CurrentUserId == (CHOOSE u \in CurrentUser : TRUE).id

\* Workout.query.filter_by(user_id=current_user.id).all()
OwnWorkouts == {w \in workouts : w.user_id = CurrentUserId}

\* Exercise.query.filter_by(workout_id=...).all()
ExercisesOf(wid) == {e \in exercises : e.workout_id = wid}

\* add_workout, lines 147-153: the Workout row built from the form
NewWorkout(form) ==
    [id |-> NextId(workouts),
     user_id |-> CurrentUserId,
     date |-> FieldData(form, "date"),
     start_time |-> FieldData(form, "start_time"),
     duration |-> FieldData(form, "duration"),
     notes |-> FieldData(form, "notes")]

\* mutant: a kept row takes its body part from its position among the kept
\* rows, not from its own index
RECURSIVE ExerciseLoopCompact(_, _, _, _, _, _, _)
ExerciseLoopCompact(i, wid, names, body_parts, sets, reps, pending) ==
    IF i > Len(names) THEN [error |-> "", pending |-> pending]
    ELSE IF Strip(names[i]) = <<>>
    THEN ExerciseLoopCompact(i + 1, wid, names, body_parts, sets, reps, pending)
    ELSE IF i > Len(body_parts) THEN [error |-> "IndexError", pending |-> pending]
    ELSE IF i > Len(sets) THEN [error |-> "IndexError", pending |-> pending]
    ELSE LET s == ParseInt(sets[i])
         IN  IF ~s.ok THEN [error |-> "ValueError", pending |-> pending]
             ELSE IF i > Len(reps) THEN [error |-> "IndexError", pending |-> pending]
             ELSE LET r == ParseInt(reps[i])
                  IN  IF ~r.ok THEN [error |-> "ValueError", pending |-> pending]
                      ELSE ExerciseLoopCompact(i + 1, wid, names, body_parts, sets, reps,
                              Append(pending, [workout_id |-> wid,
                                               body_part |-> body_parts[Len(pending) + 1],
                                               name |-> names[i],
                                               sets |-> s.value,
                                               reps |-> r.value]))

\* lines 162-171: the loop over the submitted rows from index i on. pending
\* holds the Exercise objects added to the session so far; an index past the
\* end of a list (IndexError) or a value int() refuses (ValueError) ends the
\* request.
RECURSIVE ExerciseLoop(_, _, _, _, _, _, _)
ExerciseLoop(i, wid, names, body_parts, sets, reps, pending) ==
    IF i > Len(names) THEN [error |-> "", pending |-> pending]
    ELSE IF Strip(names[i]) = <<>>
    THEN ExerciseLoop(i + 1, wid, names, body_parts, sets, reps, pending)
    ELSE IF i > Len(body_parts) THEN [error |-> "IndexError", pending |-> pending]
    ELSE IF i > Len(sets) THEN [error |-> "IndexError", pending |-> pending]
    ELSE LET s == ParseInt(sets[i])
         IN  IF ~s.ok THEN [error |-> "ValueError", pending |-> pending]
             ELSE IF i > Len(reps) THEN [error |-> "IndexError", pending |-> pending]
             ELSE LET r == ParseInt(reps[i])
                  IN  IF ~r.ok THEN [error |-> "ValueError", pending |-> pending]
                      ELSE ExerciseLoop(i + 1, wid, names, body_parts, sets, reps,
                              Append(pending, [workout_id |-> wid,
                                               body_part |-> body_parts[i],
                                               name |-> names[i],
                                               sets |-> s.value,
                                               reps |-> r.value]))

\* mutant: the rows point at the id after the new Workout's
InsertedWrongParent(pending, table) ==
    LET first == NextId(table)
    IN  {[id |-> first + j - 1,
          workout_id |-> pending[j].workout_id + 1,
          body_part |-> pending[j].body_part,
          name |-> pending[j].name,
          sets |-> pending[j].sets,
          reps |-> pending[j].reps] : j \in 1..Len(pending)}

\* line 173: the pending Exercise objects as rows, ids in the order added
Inserted(pending, table) ==
    LET first == NextId(table)
    IN  {[id |-> first + j - 1,
          workout_id |-> pending[j].workout_id,
          body_part |-> pending[j].body_part,
          name |-> pending[j].name,
          sets |-> pending[j].sets,
          reps |-> pending[j].reps] : j \in 1..Len(pending)}

\* mutant: the rows added before the failing one are committed
AddWorkoutBodyKeepsPartial(method, form) ==
    IF ~WorkoutFormValid(method, form)
    THEN /\ response' = Respond("render", "add_workout.html", "")
         /\ UNCHANGED <<users, plaintext, workouts, exercises, session>>
    ELSE IF ~IsAuthenticated
    THEN /\ response' = Respond("server_error", "AttributeError", "")
         /\ UNCHANGED <<users, plaintext, workouts, exercises, session>>
    ELSE LET workout == NewWorkout(form)
             loop == ExerciseLoop(1, workout.id,
                                  GetList(form, "exercise_name"),
                                  GetList(form, "exercise_body_part"),
                                  GetList(form, "exercise_sets"),
                                  GetList(form, "exercise_reps"), <<>>)
         IN  /\ workouts' = workouts \cup {workout}
             /\ exercises' = exercises \cup Inserted(loop.pending, exercises)
             /\ response' = IF loop.error = ""
                            THEN Respond("redirect", "dashboard", "Trening dodany!")
                            ELSE Respond("server_error", loop.error, "")
             /\ UNCHANGED <<users, plaintext, session>>

\* add_workout, lines 145-177.  The Workout is committed first (line 155); a
\* request that ends in the loop leaves it stored and stores no Exercise.
AddWorkoutBody(method, form) ==
    IF ~WorkoutFormValid(method, form)
    THEN /\ response' = Respond("render", "add_workout.html", "")
         /\ UNCHANGED <<users, plaintext, workouts, exercises, session>>
    ELSE IF ~IsAuthenticated
    THEN /\ response' = Respond("server_error", "AttributeError", "")
         /\ UNCHANGED <<users, plaintext, workouts, exercises, session>>
    ELSE LET workout == NewWorkout(form)
             loop == ExerciseLoop(1, workout.id,
                                  GetList(form, "exercise_name"),
                                  GetList(form, "exercise_body_part"),
                                  GetList(form, "exercise_sets"),
                                  GetList(form, "exercise_reps"), <<>>)
         IN  /\ workouts' = workouts \cup {workout}
             /\ IF loop.error = ""
                THEN /\ exercises' = exercises \cup Inserted(loop.pending, exercises)
                     /\ response' = Respond("redirect", "dashboard", "Trening dodany!")
                ELSE /\ UNCHANGED exercises
                     /\ response' = Respond("server_error", loop.error, "")
             /\ UNCHANGED <<users, plaintext, session>>

AddWorkout(method, form) ==
    /\ request' = Req("add_workout", method, form, 0)
    /\ LoginRequired(AddWorkoutBody(method, form))
    /\ UNCHANGED inflight

\* a POST to add_workout with one of the given forms, while the Workout table
\* has room
PostWorkout(forms) ==
    /\ Cardinality(workouts) < MaxWorkouts
    /\ \E form \in forms : AddWorkout("POST", form)

DashboardBody ==
    /\ response' = IF IsAuthenticated
                   THEN RespondData("dashboard.html", OwnWorkouts, {})
                   ELSE Respond("server_error", "AttributeError", "")
    /\ UNCHANGED <<users, plaintext, workouts, exercises, session>>

Dashboard ==
    /\ request' = Req("dashboard", "GET", EmptyForm, 0)
    /\ LoginRequired(DashboardBody)
    /\ UNCHANGED inflight

WorkoutHistoryBody ==
    /\ response' = IF IsAuthenticated
                   THEN RespondData("workout_history.html", OwnWorkouts,
                                    UNION {ExercisesOf(w.id) : w \in OwnWorkouts})
                   ELSE Respond("server_error", "AttributeError", "")
    /\ UNCHANGED <<users, plaintext, workouts, exercises, session>>

WorkoutHistory ==
    /\ request' = Req("workout_history", "GET", EmptyForm, 0)
    /\ LoginRequired(WorkoutHistoryBody)
    /\ UNCHANGED inflight

\* mutant: a workout of another user is reported as not found
ViewWorkoutResponseOwned(wid) ==
    LET found == {w \in workouts : w.id = wid /\ w.user_id = session}
    IN  IF found = {}
        THEN Respond("not_found", "", "")
        ELSE RespondData("view_workout.html", found, ExercisesOf(wid))

\* view_workout, lines 194-196: the response for workout id wid
ViewWorkoutResponse(wid) ==
    LET found == {w \in workouts : w.id = wid}
    IN  IF found = {}
        THEN Respond("not_found", "", "")
        ELSE RespondData("view_workout.html", found, ExercisesOf(wid))

ViewWorkoutBody(wid) ==
    /\ response' = ViewWorkoutResponse(wid)
    /\ UNCHANGED <<users, plaintext, workouts, exercises, session>>

ViewWorkout(wid) ==
    /\ request' = Req("view_workout", "GET", EmptyForm, wid)
    /\ LoginRequired(ViewWorkoutBody(wid))
    /\ UNCHANGED inflight

(* ------------------------------ requests ------------------------------ *)
alice == <<"a">>
bob == <<"b">>
emailA == <<"a", "@", "x", ".", "y">>
emailB == <<"b", "@", "x", ".", "y">>
badEmail == <<"a", "x">>
pw1 == <<"p">>
pw2 == <<"p", " ">>

RegisterFormOf(u, e, p, p2) ==
    [EmptyForm EXCEPT !["username"] = <<u>>, !["email"] = <<e>>,
                      !["password"] = <<p>>, !["password2"] = <<p2>>]

LoginFormOf(e, p) == [EmptyForm EXCEPT !["email"] = <<e>>, !["password"] = <<p>>]

\* an exercise row of the add-workout page: one value in each of the four lists
Row(name, body_part, sets, reps) ==
    [name |-> name, body_part |-> body_part, sets |-> sets, reps |-> reps]

WorkoutFormOf(date, rows) ==
    [EmptyForm EXCEPT !["date"] = <<date>>,
                      !["start_time"] = << <<"8">> >>,
                      !["duration"] = << <<"1", "h">> >>,
                      !["exercise_name"] = [i \in 1..Len(rows) |-> rows[i].name],
                      !["exercise_body_part"] = [i \in 1..Len(rows) |-> rows[i].body_part],
                      !["exercise_sets"] = [i \in 1..Len(rows) |-> rows[i].sets],
                      !["exercise_reps"] = [i \in 1..Len(rows) |-> rows[i].reps]]

\* the same form with the last value of the reps list not submitted
ShortReps(form) ==
    [form EXCEPT !["exercise_reps"] =
        SubSeq(form["exercise_reps"], 1, Len(form["exercise_reps"]) - 1)]

SeqsUpTo(S, n) == UNION {[1..k -> S] : k \in 0..n}

squat == <<"s", "q">>
legs == <<"l", "e", "g">>
arms == <<"a", "r", "m">>

rowA == Row(squat, legs, <<"3">>, <<"1", "2">>)
rowB == Row(<<" ", "b">>, arms, <<" ", "4">>, <<"+", "5">>)
rowSpace == Row(<<" ">>, arms, <<"4">>, <<"5">>)
rowBlankBad == Row(<<>>, legs, <<"x">>, <<>>)
rowBadSets == Row(squat, legs, <<"3", "x">>, <<"5">>)
rowBadReps == Row(squat, arms, <<"3">>, <<>>)

AllRows == {rowA, rowB, rowSpace, rowBlankBad, rowBadSets, rowBadReps}
BasicRows == {rowA, rowBlankBad, rowBadSets}

day == <<"d">>

WorkoutForms(rows) ==
    LET full == {WorkoutFormOf(day, rs) : rs \in SeqsUpTo(rows, MaxRows)}
    IN  full \cup {WorkoutFormOf(<<" ">>, <<rowA>>)}

BasicWorkoutForms == WorkoutForms(BasicRows)
AllWorkoutForms == WorkoutForms(AllRows)
ShortWorkoutForms == {ShortReps(form) : form \in WorkoutForms({rowA, rowBlankBad})}

Workers == 1..NumWorkers
Salts == 1..NumSalts

(* --------------------------- specifications --------------------------- *)
Init ==
    /\ users = {}
    /\ workouts = {}
    /\ exercises = {}
    /\ session = Anonymous
    /\ request = Req("index", "GET", EmptyForm, 0)
    /\ response = Respond("render", "index.html", "")
    /\ inflight = [w \in Workers |-> <<>>]
    /\ plaintext = <<>>

\* every route, one request at a time, two accounts
AccountForms ==
    {RegisterFormOf(alice, emailA, pw1, pw1), RegisterFormOf(bob, emailB, pw1, pw1),
     RegisterFormOf(alice, emailB, pw1, pw1), RegisterFormOf(bob, emailB, pw1, pw2)}

Credentials == {LoginFormOf(emailA, pw1), LoginFormOf(emailB, pw1), LoginFormOf(emailA, pw2)}

Next ==
    \/ Index
    \/ \E form \in AccountForms : Register("POST", form, 1)
    \/ \E form \in Credentials : Login("POST", form)
    \/ Logout
    \/ Dashboard
    \/ AddWorkout("GET", EmptyForm)
    \/ PostWorkout(BasicWorkoutForms)
    \/ WorkoutHistory
    \/ \E wid \in 0..(MaxWorkouts + 1) : ViewWorkout(wid)

Spec == Init /\ [][Next]_vars

\* accounts only: registration, login and logout over every form
RegisterForms ==
    {RegisterFormOf(u, e, p, p) : u \in {alice, bob}, e \in {emailA, emailB}, p \in {pw1, pw2}}
        \cup {RegisterFormOf(<<" ">>, emailA, pw1, pw1),
              RegisterFormOf(alice, badEmail, pw1, pw1),
              RegisterFormOf(bob, emailB, pw1, pw2),
              RegisterFormOf(bob, emailB, <<>>, <<>>)}

LoginForms == {LoginFormOf(e, p) : e \in {emailA, emailB, badEmail}, p \in {pw1, pw2, <<>>}}

NextAuth ==
    \/ Index
    \/ Register("GET", EmptyForm, 1)
    \/ \E form \in RegisterForms, salt \in Salts : Register("POST", form, salt)
    \/ Login("GET", EmptyForm)
    \/ \E form \in LoginForms : Login("POST", form)
    \/ Logout
    \/ Dashboard

SpecAuth == Init /\ [][NextAuth]_vars

\* registration requests served by concurrent workers
RaceForms ==
    {RegisterFormOf(u, e, pw1, pw1) : u \in {alice, bob}, e \in {emailA, emailB}}
        \cup {RegisterFormOf(alice, badEmail, pw1, pw1)}

NextRegister ==
    \/ \E w \in Workers, form \in RaceForms : RegisterBegin(w, "POST", form)
    \/ \E w \in Workers, salt \in Salts : RegisterCommit(w, salt)

SpecRegister == Init /\ [][NextRegister]_vars

\* one account adding workouts, over every combination of exercise rows
NextWorkout ==
    \/ Register("POST", RegisterFormOf(alice, emailA, pw1, pw1), 1)
    \/ Login("POST", LoginFormOf(emailA, pw1))
    \/ AddWorkout("GET", EmptyForm)
    \/ PostWorkout(AllWorkoutForms)
    \/ PostWorkout(ShortWorkoutForms)

SpecWorkout == Init /\ [][NextWorkout]_vars

(* ------------------------------ properties ---------------------------- *)
ProtectedRoutes == {"logout", "dashboard", "add_workout", "workout_history", "view_workout"}

\* a name the add-workout page counts as not filled in
IsBlankName(s) == \A i \in 1..Len(s) : s[i] \in Whitespace

\* the four lists of a submitted workout form hold one value per row
Aligned(form) ==
    /\ Len(form["exercise_body_part"]) = Len(form["exercise_name"])
    /\ Len(form["exercise_sets"]) = Len(form["exercise_name"])
    /\ Len(form["exercise_reps"]) = Len(form["exercise_name"])

RowIndices(form) == 1..Len(form["exercise_name"])

KeptRows(form) == {i \in RowIndices(form) : ~IsBlankName(form["exercise_name"][i])}

WellFormedRow(form, i) ==
    ParseInt(form["exercise_sets"][i]).ok /\ ParseInt(form["exercise_reps"][i]).ok

\* C1: whatever the interleaving of register requests, no two User rows share
\* an email and no two share a username.
C1_UniqueAccounts ==
    \A u \in users : \A v \in users :
        u # v => (u.email # v.email /\ u.username # v.username /\ u.id # v.id)

\* a request that passed both existence checks was refused at commit, because
\* another request took its email or username in between
C1_Witness ==
    /\ response.status = "server_error"
    /\ response.target = "IntegrityError"
    /\ users # {}

\* C2: a valid register request whose email or username is taken redirects to
\* the registration page and leaves the User table as it was.
C2_DuplicateRejected ==
    [][(/\ request'.route = "register"
        /\ RegisterFormValid(request'.method, request'.form)
        /\ \/ \E u \in users : u.email = FieldData(request'.form, "email")
           \/ \E u \in users : u.username = FieldData(request'.form, "username"))
       => (/\ response'.status = "redirect"
           /\ response'.target = "register"
           /\ users' = users)]_vars

\* a taken username with a free email was rejected
C2_Witness ==
    /\ request.route = "register"
    /\ response.status = "redirect"
    /\ response.target = "register"
    /\ \E u \in users : u.username = FieldData(request.form, "username")
    /\ \A u \in users : u.email # FieldData(request.form, "email")

\* C3: a login with a registered user's email succeeds (session identity of
\* that user, redirect to dashboard) exactly when the password is the one the
\* user registered with; otherwise the session identity does not change.
C3_PasswordRoundTrip ==
    [][request'.route = "login"
       => \A u \in users :
            u.email = FieldData(request'.form, "email") =>
                IF FieldData(request'.form, "password") = plaintext[u.id]
                THEN /\ session' = u.id
                     /\ response'.status = "redirect"
                     /\ response'.target = "dashboard"
                ELSE /\ session' = session
                     /\ response'.status # "redirect"]_vars

\* a user registered with the password "p " has logged in with it
C3_Witness ==
    /\ request.route = "login"
    /\ response.target = "dashboard"
    /\ FieldData(request.form, "password") = pw2
    /\ \E u \in users : u.id = session /\ plaintext[u.id] = pw2

\* C4: a failed login answers the same (same message, login page rendered,
\* session and tables untouched) whether the email is unknown or the password
\* is wrong.
C4_SameFailure ==
    [][(/\ request'.route = "login"
        /\ LoginFormValid(request'.method, request'.form)
        /\ \A u \in users :
              u.email = FieldData(request'.form, "email") =>
                  plaintext[u.id] # FieldData(request'.form, "password"))
       => (/\ response' = Respond("render", "login.html", "Bledny email lub haslo")
           /\ session' = session
           /\ users' = users
           /\ workouts' = workouts
           /\ exercises' = exercises)]_vars

\* a login with a registered email and another password has failed
C4_Witness ==
    /\ request.route = "login"
    /\ response.status = "render"
    /\ response.flash = "Bledny email lub haslo"
    /\ \E u \in users : u.email = FieldData(request.form, "email")

\* C5: a successful add_workout request with well-formed rows stores one new
\* Workout of the current user and one Exercise per row with a non-blank
\* name, carrying that row's values and the new Workout's id.
C5_RowsStored ==
    [][(/\ request'.route = "add_workout"
        /\ response'.status = "redirect"
        /\ response'.target = "dashboard"
        /\ Aligned(request'.form)
        /\ \A i \in RowIndices(request'.form) : WellFormedRow(request'.form, i))
       => \E w \in workouts' :
            /\ w \notin workouts
            /\ workouts' = workouts \cup {w}
            /\ w.user_id = session
            /\ \A v \in workouts : v.id # w.id
            /\ exercises \subseteq exercises'
            /\ LET form == request'.form
                   new == exercises' \ exercises
                   Carries(e, i) ==
                       /\ e.workout_id = w.id
                       /\ e.name = form["exercise_name"][i]
                       /\ e.body_part = form["exercise_body_part"][i]
                       /\ e.sets = ParseInt(form["exercise_sets"][i]).value
                       /\ e.reps = ParseInt(form["exercise_reps"][i]).value
                   SameValues(i, j) ==
                       /\ form["exercise_name"][i] = form["exercise_name"][j]
                       /\ form["exercise_body_part"][i] = form["exercise_body_part"][j]
                       /\ ParseInt(form["exercise_sets"][i]).value
                             = ParseInt(form["exercise_sets"][j]).value
                       /\ ParseInt(form["exercise_reps"][i]).value
                             = ParseInt(form["exercise_reps"][j]).value
               IN  /\ Cardinality(new) = Cardinality(KeptRows(form))
                   /\ Cardinality({e.id : e \in new}) = Cardinality(new)
                   /\ \A e \in new : \A old \in exercises : e.id # old.id
                   /\ \A e \in new : \E i \in KeptRows(form) : Carries(e, i)
                   /\ \A i \in KeptRows(form) :
                        Cardinality({e \in new : Carries(e, i)})
                          = Cardinality({j \in KeptRows(form) : SameValues(i, j)})]_vars

\* a request with a whitespace-only name in its first row and a filled second
\* row has stored the second row alone
C5_Witness ==
    /\ request.route = "add_workout"
    /\ response.status = "redirect"
    /\ response.target = "dashboard"
    /\ request.form["exercise_name"] = <<rowSpace.name, rowB.name>>
    /\ request.form["exercise_body_part"] = <<rowSpace.body_part, rowB.body_part>>
    /\ \E e \in exercises : e.name = rowB.name /\ e.body_part = arms /\ e.sets = 4 /\ e.reps = 5

\* C6: every Exercise references an existing Workout and every Workout an
\* existing User, each exactly one, after any sequence of requests.
C6_Ownership ==
    /\ \A e \in exercises : Cardinality({w \in workouts : w.id = e.workout_id}) = 1
    /\ \A w \in workouts : Cardinality({u \in users : u.id = w.user_id}) = 1

\* an aborted request has left a Workout without exercises beside one with
C6_Witness ==
    /\ response.status = "server_error"
    /\ exercises # {}
    /\ \E w \in workouts : ExercisesOf(w.id) = {}

\* C7: an anonymous request to a protected route is redirected to the login
\* page; no row and no session identity is created or changed.
C7_AnonymousRedirected ==
    [][(session = Anonymous /\ request'.route \in ProtectedRoutes)
       => (/\ response'.status = "redirect"
           /\ response'.target = "login"
           /\ session' = Anonymous
           /\ users' = users
           /\ workouts' = workouts
           /\ exercises' = exercises)]_vars

\* an anonymous POST of a valid workout form was redirected
C7_Witness ==
    /\ session = Anonymous
    /\ request.route = "add_workout"
    /\ request.method = "POST"
    /\ WorkoutFormValid(request.method, request.form)
    /\ response.target = "login"
    /\ users # {}

\* C8: view_workout answers not found exactly when no Workout has the id;
\* otherwise it shows that Workout and the Exercises with its id, whoever
\* owns it.
C8_ViewAnyWorkout ==
    (request.route = "view_workout" /\ session # Anonymous)
    => LET found == {w \in workouts : w.id = request.arg}
       IN  /\ response.status = "not_found" <=> found = {}
           /\ found # {} =>
                /\ response.status = "render"
                /\ response.workouts = found
                /\ response.exercises = {e \in exercises : e.workout_id = request.arg}

\* a user was shown a workout of another user, with its exercises, while
\* another workout with exercises exists
C8_Witness ==
    /\ request.route = "view_workout"
    /\ response.status = "render"
    /\ \E w \in response.workouts : w.user_id # session
    /\ response.exercises # {}
    /\ response.exercises # exercises

\* C9: the session identity changes only by a login that succeeds (to that
\* user) and by a logout (to anonymous).
C9_SessionTransitions ==
    [][session' # session
       => \/ /\ request'.route = "login"
             /\ response'.status = "redirect"
             /\ response'.target = "dashboard"
             /\ session' # Anonymous
          \/ /\ request'.route = "logout"
             /\ session # Anonymous
             /\ session' = Anonymous]_vars

\* a logout has ended a session
C9_Witness ==
    /\ request.route = "logout"
    /\ response.target = "index"
    /\ session = Anonymous
    /\ users # {}

\* C10: a valid add_workout request with a malformed sets or reps value in a
\* row with a non-blank name ends in an error, keeps its Workout and stores
\* none of its Exercises; a malformed value in a blank row does not end it.
C10_AbortKeepsWorkout ==
    [][(/\ request'.route = "add_workout"
        /\ session # Anonymous
        /\ WorkoutFormValid(request'.method, request'.form)
        /\ Aligned(request'.form))
       => LET form == request'.form
              bad == {i \in KeptRows(form) : ~WellFormedRow(form, i)}
          IN  IF bad # {}
              THEN /\ response'.status = "server_error"
                   /\ exercises' = exercises
                   /\ \E w \in workouts' :
                        /\ w \notin workouts
                        /\ workouts' = workouts \cup {w}
                        /\ \A e \in exercises' : e.workout_id # w.id
              ELSE response'.status = "redirect" /\ response'.target = "dashboard"]_vars

\* a request whose second row is malformed has left a Workout with no
\* Exercise, its well-formed first row included
C10_Witness ==
    /\ request.route = "add_workout"
    /\ response.status = "server_error"
    /\ request.form["exercise_name"] = <<rowA.name, rowBadSets.name>>
    /\ request.form["exercise_sets"] = <<rowA.sets, rowBadSets.sets>>
    /\ \E w \in workouts : ExercisesOf(w.id) = {}

====
